---- MODULE Spec2Model ----
(***************************************************************************)
(* Model of openlibrary/plugins/worksearch/schemes/works.py:               *)
(* WorkSearchScheme (field catalog, transform_user_query,                  *)
(* build_q_from_params, q_to_solr_params) and the four value normalizers   *)
(* lcc_transform, ddc_transform, isbn_transform, ia_collection_s_transform.*)
(*                                                                         *)
(* A Python string is the sequence of its characters (one-character TLA+   *)
(* strings); field names and the fixed Solr fragments the code only ever   *)
(* copies are single pieces.  A luqum node is a record                     *)
(*   [kind, name, value, kids].                                            *)
(***************************************************************************)
EXTENDS Integers, Sequences, FiniteSets, TLC

VARIABLES op, arg, ret, prev, applied, pc, params, ed_q, editions_fq

vars == <<op, arg, ret, prev, applied, pc, params, ed_q, editions_fq>>

(***************************************************************************)
(* Bounds of the model.                                                    *)
(***************************************************************************)
MaxApply == 2

(***************************************************************************)
(* Python values that are not strings.                                     *)
(***************************************************************************)
None == <<"<None>">>
NodeObject == <<"<luqum.tree.Word object>">>
IsStr(s) == s # None /\ s # NodeObject
Falsy(s) == s = None \/ s = <<>>

(***************************************************************************)
(* String helpers.                                                         *)
(***************************************************************************)
Digits == {"0", "1", "2", "3", "4", "5", "6", "7", "8", "9"}
Contains(s, c) == \E i \in 1..Len(s) : s[i] = c
StartsWith(s, c) == Len(s) > 0 /\ s[1] = c
EndsWith(s, c) == Len(s) > 0 /\ s[Len(s)] = c
FirstIndex(s, c) == CHOOSE i \in 1..Len(s) : s[i] = c /\ \A j \in 1..(i - 1) : s[j] # c
\* s.split(c, 1) for a string that contains c
SplitOnce(s, c) == <<SubSeq(s, 1, FirstIndex(s, c) - 1), SubSeq(s, FirstIndex(s, c) + 1, Len(s))>>
RECURSIVE LStrip(_, _)
LStrip(s, c) == IF StartsWith(s, c) THEN LStrip(Tail(s), c) ELSE s
RECURSIVE RStrip(_, _)
RStrip(s, c) == IF EndsWith(s, c) THEN RStrip(SubSeq(s, 1, Len(s) - 1), c) ELSE s
Strip(s, c) == RStrip(LStrip(s, c), c)
RECURSIVE Join(_, _)
Join(ss, sep) ==
    IF Len(ss) = 0 THEN <<>>
    ELSE IF Len(ss) = 1 THEN ss[1]
    ELSE ss[1] \o sep \o Join(Tail(ss), sep)
RECURSIVE Flatten(_)
Flatten(ss) == IF Len(ss) = 0 THEN <<>> ELSE ss[1] \o Flatten(Tail(ss))
RECURSIVE MapTable(_, _)
\* the first row <<key, value>> of a table whose key is k, else None
MapTable(table, k) ==
    IF Len(table) = 0 THEN None
    ELSE IF table[1][1] = k THEN table[1][2]
    ELSE MapTable(Tail(table), k)
Perms(S) == {f \in [1..Cardinality(S) -> S] : \A i, j \in 1..Cardinality(S) : f[i] = f[j] => i = j}

(***************************************************************************)
(* Field catalog.                                                          *)
(***************************************************************************)
all_fields ==
    {"key", "redirects", "title", "subtitle", "alternative_title",
     "alternative_subtitle", "cover_i", "ebook_access", "edition_count",
     "edition_key", "by_statement", "publish_date", "lccn", "ia", "oclc",
     "isbn", "contributor", "publish_place", "publisher", "first_sentence",
     "author_key", "author_name", "author_alternative_name", "subject",
     "person", "place", "time", "has_fulltext", "title_suggest",
     "publish_year", "language", "number_of_pages_median", "ia_count",
     "publisher_facet", "author_facet", "first_publish_year",
     "subject_key", "person_key", "place_key", "time_key",
     "lcc", "ddc", "lcc_sort", "ddc_sort"}

facet_fields ==
    {"has_fulltext", "author_facet", "language", "first_publish_year",
     "publisher_facet", "subject_facet", "person_facet", "place_facet",
     "time_facet", "public_scan_b"}

field_name_map ==
    [k \in {"author", "authors", "by", "number_of_pages", "publishers",
            "subtitle", "title", "work_subtitle", "work_title",
            "_ia_collection"} |->
        CASE k \in {"author", "authors", "by"} -> "author_name"
          [] k = "number_of_pages" -> "number_of_pages_median"
          [] k = "publishers" -> "publisher"
          [] k = "subtitle" -> "alternative_subtitle"
          [] k = "title" -> "alternative_title"
          [] k = "work_subtitle" -> "subtitle"
          [] k = "work_title" -> "title"
          [] k = "_ia_collection" -> "ia_collection_s"]

WORK_FIELD_TO_ED_FIELD ==
    [k \in {"edition_key", "text", "title", "title_suggest", "subtitle",
            "alternative_title", "alternative_subtitle", "cover_i",
            "language", "publisher", "publisher_facet", "publish_date",
            "publish_year", "isbn", "ebook_access", "has_fulltext", "ia",
            "ia_collection", "ia_box_id", "public_scan_b"} |->
        CASE k = "edition_key" -> "key"
          [] k = "alternative_title" -> "title"
          [] k = "alternative_subtitle" -> "subtitle"
          [] OTHER -> k]

check_params ==
    {"title", "publisher", "oclc", "lccn", "contributor", "subject",
     "place", "person", "time", "author_key"}

(***************************************************************************)
(* Field names a user query of the model may use, and str operations on    *)
(* them.                                                                   *)
(***************************************************************************)
FieldNames ==
    {"title", "Title", "AUTHOR", "by", "work_title", "_ia_collection",
     "isbn", "lcc", "lcc_sort", "ddc", "ddc_sort", "dcc", "dcc_sort",
     "ia_collection_s", "publisher", "edition_key", "subject",
     "subject_facet", "first_publish_year", "id_librivox", "bogus", "*"}

\* str.lower() on the names of the model
Lower(name) ==
    CASE name = "Title" -> "title"
      [] name = "AUTHOR" -> "author"
      [] OTHER -> name

\* field.startswith('id_') on the names of the model
StartsWithId(name) == name \in {"id_librivox", "id_project_gutenberg", "id_standard_ebooks", "id_openstax"}

(***************************************************************************)
(* luqum nodes.  Range keeps its bounds low, high as kids[1], kids[2];     *)
(* SearchField, Group, Not and Prohibit keep their expression as kids[1].  *)
(* A SearchField's value holds the characters written before its name (the *)
(* '+' of line 330), so that its name stays one piece.                     *)
(***************************************************************************)
Node(k, n, v, ks) == [kind |-> k, name |-> n, value |-> v, kids |-> ks]
Word(v) == Node("Word", "", v, <<>>)
Phrase(v) == Node("Phrase", "", v, <<>>)
Range(lo, hi) == Node("Range", "", <<>>, <<Word(lo), Word(hi)>>)
Group(e) == Node("Group", "", <<>>, <<e>>)
SearchField(n, e) == Node("SearchField", n, <<>>, <<e>>)
UnknownOperation(ks) == Node("UnknownOperation", "", <<>>, ks)
Not(e) == Node("Not", "", <<>>, <<e>>)
Prohibit(e) == Node("Prohibit", "", <<>>, <<e>>)
\* what a call that raised leaves in place of its result
Raised == Node("Raised", "", <<>>, <<>>)

WithValue(node, v) == [node EXCEPT !.value = v]
WithExpr(node, e) == [node EXCEPT !.kids = <<e>>]
WithName(node, n) == [node EXCEPT !.name = n]

\* str(node)
RECURSIVE Str(_)
Str(node) ==
    CASE node.kind \in {"Word", "Phrase"} -> node.value
      [] node.kind = "Range" ->
            <<"[">> \o Str(node.kids[1]) \o <<" ", "T", "O", " ">> \o Str(node.kids[2]) \o <<"]">>
      [] node.kind = "Group" -> <<"(">> \o Str(node.kids[1]) \o <<")">>
      [] node.kind = "SearchField" -> node.value \o <<node.name, ":">> \o Str(node.kids[1])
      [] node.kind = "Not" -> <<"N", "O", "T", " ">> \o Str(node.kids[1])
      [] node.kind = "Prohibit" -> <<"-">> \o Str(node.kids[1])
      [] node.kind = "UnknownOperation" ->
            Join([i \in 1..Len(node.kids) |-> Str(node.kids[i])], <<" ">>)
      [] OTHER -> <<>>

(***************************************************************************)
(* Sample literals.                                                        *)
(***************************************************************************)
Isbn13 == <<"9", "7", "8", "0", "1", "4", "0", "4", "4", "9", "1", "3", "6">>
Isbn13Hyphen == <<"9", "7", "8", "-", "0", "1", "4", "0", "4", "4", "9", "1", "3", "6">>
Isbn10 == <<"0", "1", "4", "0", "4", "4", "9", "1", "3", "x">>
Digits5 == <<"1", "2", "3", "4", "5">>
Harry == <<"h", "a", "r", "r", "y">>
Emma == <<"e", "m", "m", "a">>
Star == <<"*">>
Quote == "\""
Lcc_NC1 == <<"N", "C", "1">>
Lcc_NC1000 == <<"N", "C", "1", "0", "0", "0">>
Lcc_A720 == <<"A", "7", "2", "0">>
Lcc_B2 == <<".", "B", "2">>
Year == <<"1", "9", "9", "5">>
Zeros8 == <<"0", "0", "0", "0", "0", "0", "0", "0">>
Pre_NC1 == <<"N", "C", "-", "-", "0", "0", "0", "1">>
Pre_NC1000 == <<"N", "C", "-", "-", "1", "0", "0", "0">>
Pre_A720 == <<"A", "-", "-", "-", "0", "7", "2", "0">>
Sort_NC1 == Pre_NC1 \o <<".">> \o Zeros8
Sort_NC1000 == Pre_NC1000 \o <<".">> \o Zeros8
Sort_A720 == Pre_A720 \o <<".">> \o Zeros8
Ddc_17 == <<"1", "7">>
Ddc_017 == <<"0", "1", "7">>
Ddc_200 == <<"2", "0", "0">>

(***************************************************************************)
(* Utilities of openlibrary.utils (isbn, lcc, ddc) and                     *)
(* openlibrary.solr.query_utils, by their contracts.                       *)
(***************************************************************************)
RECURSIVE KeepIsbnChars(_)
KeepIsbnChars(s) ==
    IF Len(s) = 0 THEN <<>>
    ELSE (IF s[1] \in Digits THEN <<s[1]>>
          ELSE IF s[1] \in {"x", "X"} THEN <<"X">>
          ELSE <<>>) \o KeepIsbnChars(Tail(s))

\* keeps the digits and X of an ISBN-like string; None when nothing is left
normalize_isbn(s) ==
    IF ~IsStr(s) \/ KeepIsbnChars(s) = <<>> THEN None ELSE KeepIsbnChars(s)

short_lcc_to_sortable_lcc(s) ==
    MapTable(<< <<Lcc_NC1, Sort_NC1>>, <<Lcc_NC1000, Sort_NC1000>>, <<Lcc_A720, Sort_A720>>,
                <<Sort_NC1, Sort_NC1>>, <<Sort_NC1000, Sort_NC1000>>, <<Sort_A720, Sort_A720>>,
                <<Lcc_NC1 \o <<" ">> \o Lcc_B2, Sort_NC1 \o Lcc_B2>>,
                <<Lcc_NC1 \o <<" ">> \o Lcc_B2 \o <<" ">> \o Year,
                  Sort_NC1 \o Lcc_B2 \o <<" ">> \o Year>>,
                <<Sort_NC1 \o Lcc_B2 \o <<" ">> \o Year, Sort_NC1 \o Lcc_B2 \o <<" ">> \o Year>> >>, s)

normalize_lcc_prefix(s) ==
    MapTable(<< <<Lcc_NC1, Pre_NC1>>, <<Lcc_A720, Pre_A720>>,
                <<Pre_NC1, Pre_NC1>>, <<Pre_A720, Pre_A720>> >>, s)

\* each bound on its own: '*' stays, anything else is made sortable or yields None
normalize_lcc_range(lo, hi) ==
    <<IF lo = Star THEN lo ELSE short_lcc_to_sortable_lcc(lo),
      IF hi = Star THEN hi ELSE short_lcc_to_sortable_lcc(hi)>>

normalize_ddc(s) ==
    MapTable(<< <<Ddc_17, Ddc_017>>, <<Ddc_017, Ddc_017>>, <<Ddc_200, Ddc_200>> >>, s)

normalize_ddc_range(lo, hi) ==
    <<IF lo = Star THEN lo ELSE normalize_ddc(lo),
      IF hi = Star THEN hi ELSE normalize_ddc(hi)>>

\* pads a known prefix; any other prefix is returned as it is
normalize_ddc_prefix(s) ==
    IF normalize_ddc(s) # None THEN normalize_ddc(s) ELSE s

(***************************************************************************)
(* The value normalizers.  Each takes the SearchField node and gives the   *)
(* node as the call leaves it (Raised when the call raises).               *)
(***************************************************************************)
IsWordGroup(val) ==
    /\ val.kind = "Group"
    /\ val.kids[1].kind = "UnknownOperation"
    /\ \A i \in 1..Len(val.kids[1].kids) : val.kids[1].kids[i].kind = "Word"

lcc_transform(sf) ==
    LET val == sf.kids[1] IN
    CASE val.kind = "Range" ->
            LET normed_range == normalize_lcc_range(val.kids[1].value, val.kids[2].value) IN
            IF ~IsStr(val.kids[1].value) \/ ~IsStr(val.kids[2].value)
            THEN Raised
            ELSE IF Len(normed_range) > 0
            THEN WithExpr(sf, [val EXCEPT !.kids = <<WithValue(val.kids[1], normed_range[1]),
                                                     WithValue(val.kids[2], normed_range[2])>>])
            ELSE sf
      [] val.kind = "Word" ->
            IF Contains(val.value, "*") /\ ~StartsWith(val.value, "*")
            THEN LET parts == SplitOnce(val.value, "*")
                     lcc_prefix == normalize_lcc_prefix(parts[1])
                 IN  WithExpr(sf, WithValue(val,
                        (IF Falsy(lcc_prefix) THEN parts[1] ELSE lcc_prefix) \o <<"*">> \o parts[2]))
            ELSE LET normed == short_lcc_to_sortable_lcc(Strip(val.value, Quote)) IN
                 IF ~Falsy(normed) THEN WithExpr(sf, WithValue(val, normed)) ELSE sf
      [] val.kind = "Phrase" ->
            LET normed == short_lcc_to_sortable_lcc(Strip(val.value, Quote)) IN
            IF ~Falsy(normed)
            THEN WithExpr(sf, WithValue(val, <<Quote>> \o normed \o <<Quote>>))
            ELSE sf
      [] val.kind \notin {"Range", "Word", "Phrase"} /\ IsWordGroup(val) ->
            LET normed == short_lcc_to_sortable_lcc(Str(val.kids[1])) IN
            IF ~Falsy(normed)
            THEN IF Contains(normed, " ")
                 THEN WithExpr(sf, Phrase(<<Quote>> \o normed \o <<Quote>>))
                 ELSE WithExpr(sf, Word(normed \o <<"*">>))
            ELSE sf
      [] OTHER -> sf

\* line 462: a bound the utility gives no value for is assigned val.low, the
\* Word node itself, not val.low.value
ddc_transform(sf) ==
    LET val == sf.kids[1] IN
    CASE val.kind = "Range" ->
            IF ~IsStr(val.kids[1].value) \/ ~IsStr(val.kids[2].value)
            THEN Raised
            ELSE LET normed_range == normalize_ddc_range(val.kids[1].value, val.kids[2].value) IN
                 WithExpr(sf, [val EXCEPT !.kids =
                    <<WithValue(val.kids[1],
                                IF Falsy(normed_range[1]) THEN NodeObject ELSE normed_range[1]),
                      WithValue(val.kids[2],
                                IF Falsy(normed_range[2]) THEN NodeObject ELSE normed_range[2])>>])
      [] val.kind = "Word" /\ EndsWith(val.value, "*") ->
            \* returns normalize_ddc_prefix(val.value[:-1]) + '*' and assigns nothing
            sf
      [] val.kind \in {"Word", "Phrase"} /\ ~(val.kind = "Word" /\ EndsWith(val.value, "*")) ->
            LET normed == normalize_ddc(Strip(val.value, Quote)) IN
            IF ~Falsy(normed) THEN WithExpr(sf, WithValue(val, normed)) ELSE sf
      [] OTHER -> sf

\* the value ddc_transform returns to its caller (None unless the Word branch returns)
ddc_transform_result(sf) ==
    LET val == sf.kids[1] IN
    IF val.kind = "Word" /\ EndsWith(val.value, "*")
    THEN normalize_ddc_prefix(SubSeq(val.value, 1, Len(val.value) - 1)) \o <<"*">>
    ELSE None

isbn_transform(sf) ==
    LET field_val == sf.kids[1] IN
    IF field_val.kind = "Word" /\ ~Contains(field_val.value, "*")
    THEN LET isbn == normalize_isbn(field_val.value) IN
         IF ~Falsy(isbn) THEN WithExpr(sf, WithValue(field_val, isbn)) ELSE sf
    ELSE sf

ia_collection_s_transform(sf) ==
    LET val == sf.kids[1] IN
    IF val.kind = "Word"
    THEN LET v1 == IF StartsWith(val.value, "*") THEN <<"*">> \o val.value ELSE val.value
             v2 == IF EndsWith(v1, "*") THEN v1 \o <<"*">> ELSE v1
         IN  WithExpr(sf, WithValue(val, v2))
    ELSE sf

(***************************************************************************)
(* transform_user_query.                                                   *)
(***************************************************************************)
RECURSIVE HasSearchField(_)
HasSearchField(node) ==
    \/ node.kind = "SearchField"
    \/ \E i \in 1..Len(node.kids) : HasSearchField(node.kids[i])

\* the name after lines 175-176
ResolveAlias(name) ==
    IF Lower(name) \in DOMAIN field_name_map THEN field_name_map[Lower(name)] ELSE name

\* the body of the loop of lines 173-184 on one SearchField node
RewriteField(node) ==
    LET n0 == WithName(node, ResolveAlias(node.name))
        n1 == IF n0.name = "isbn" THEN isbn_transform(n0) ELSE n0
        n2 == IF n1.name \in {"lcc", "lcc_sort"} THEN lcc_transform(n1) ELSE n1
        n3 == IF n2.name \in {"dcc", "dcc_sort"} THEN ddc_transform(n2) ELSE n2
        n4 == IF n3.name = "ia_collection_s" THEN ia_collection_s_transform(n3) ELSE n3
    IN  n4

\* the loop of lines 172-184: every node in pre-order, rewritten in place
RECURSIVE RewriteTree(_)
RewriteTree(node) ==
    LET here == IF node.kind = "SearchField" THEN RewriteField(node) ELSE node
    IN  [here EXCEPT !.kids = [i \in 1..Len(here.kids) |-> RewriteTree(here.kids[i])]]

\* luqum_parser(f'isbn:({isbn})')
IsbnTree(isbn) == SearchField("isbn", Group(Word(isbn)))

\* faulty variant: the fallback without the length test of line 189
transform_user_query_AnyLength(user_query, q_tree) ==
    LET isbn == normalize_isbn(user_query)
    IN  IF ~HasSearchField(q_tree) /\ ~Falsy(isbn)
        THEN [obj |-> "luqum_parser", tree |-> IsbnTree(isbn)]
        ELSE [obj |-> "q_tree", tree |-> RewriteTree(q_tree)]

\* obj tells which object is returned: the q_tree passed in, or the new tree
\* line 190 binds
transform_user_query(user_query, q_tree) ==
    LET rewritten == RewriteTree(q_tree)
        has_search_fields == HasSearchField(q_tree)
        isbn == normalize_isbn(user_query)
    IN  IF ~has_search_fields /\ ~Falsy(isbn) /\ Len(isbn) \in {10, 13}
        THEN [obj |-> "luqum_parser", tree |-> IsbnTree(isbn)]
        ELSE [obj |-> "q_tree", tree |-> rewritten]

(***************************************************************************)
(* The query trees of the model.                                           *)
(***************************************************************************)
WordValues ==
    {Isbn13Hyphen, Isbn10, Harry, Star \o Harry, Harry \o Star, Star \o Harry \o Star,
     Lcc_NC1, Lcc_A720 \o Star, Ddc_17, Ddc_17 \o Star}

ValueNodes ==
    {Word(v) : v \in WordValues}
    \cup {Phrase(<<Quote>> \o Lcc_NC1 \o <<Quote>>), Phrase(<<Quote>> \o Ddc_17 \o <<Quote>>),
          Range(Lcc_NC1, Lcc_NC1000), Range(Harry, Lcc_NC1000), Range(Lcc_NC1, Harry),
          Range(Ddc_17, Ddc_200), Range(Harry, Ddc_200), Range(Ddc_17, Star),
          Group(UnknownOperation(<<Word(Lcc_NC1), Word(Lcc_B2)>>)),
          Group(UnknownOperation(<<Word(Lcc_NC1), Word(Lcc_B2), Word(Year)>>)),
          Group(Phrase(<<Quote>> \o Harry \o <<Quote>>))}

FieldNodes == {SearchField(n, v) : n \in FieldNames, v \in ValueNodes}

BareTrees ==
    {Word(v) : v \in {Isbn13, Isbn13Hyphen, Isbn10, Digits5, Harry}}
    \cup {UnknownOperation(<<Word(SubSeq(Isbn13, 1, 3)), Word(SubSeq(Isbn13, 4, 13))>>),
          UnknownOperation(<<Word(Harry), Word(Emma)>>),
          Group(Word(Isbn13)),
          Phrase(<<Quote>> \o Isbn10 \o <<Quote>>)}

MixedTrees ==
    {UnknownOperation(<<b, SearchField(n, Word(Harry))>>) :
        b \in {Word(Isbn13), Word(Harry)}, n \in {"title", "isbn", "ddc", "bogus"}}
    \cup {Prohibit(SearchField(n, Word(Isbn13Hyphen))) : n \in {"isbn", "Title"}}
    \cup {SearchField("subject", Group(SearchField(n, Word(Ddc_17)))) : n \in {"ddc", "dcc"}}

UserTrees == BareTrees \cup FieldNodes \cup MixedTrees

(***************************************************************************)
(* build_q_from_params.  A value of the params dict is a str or a list of  *)
(* str: [list |-> BOOLEAN, items |-> the str, or the elements of the list].*)
(***************************************************************************)
StrValue(v) == [list |-> FALSE, items |-> <<v>>]
ListValue(vs) == [list |-> TRUE, items |-> vs]
Truthy(pv) == IF pv.list THEN Len(pv.items) > 0 ELSE Len(pv.items[1]) > 0

\* re_author_key = r'(OL\d+A)': the span <<i, j>> of a match starting at i
AuthorKeySpans(v) ==
    {ij \in (1..Len(v)) \X (1..Len(v)) :
        /\ ij[1] + 3 <= ij[2]
        /\ v[ij[1]] = "O" /\ v[ij[1] + 1] = "L" /\ v[ij[2]] = "A"
        /\ \A k \in (ij[1] + 2)..(ij[2] - 1) : v[k] \in Digits}

\* re_author_key.search(v).group(1), or None
AuthorKeySearch(v) ==
    IF AuthorKeySpans(v) = {} THEN None
    ELSE LET ij == CHOOSE x \in AuthorKeySpans(v) : \A y \in AuthorKeySpans(v) : x[1] <= y[1]
         IN  SubSeq(v, ij[1], ij[2])

SpecialChars == {":", "(", ")", "[", "]", "*", "-", "+", "!", "^", "~", "?", "{", "}", "\\", "\""}

\* fully_escape_query: every character with a meaning in the grammar gets a backslash
RECURSIVE fully_escape_query(_)
fully_escape_query(v) ==
    IF Len(v) = 0 THEN <<>>
    ELSE (IF v[1] \in SpecialChars THEN <<"\\", v[1]>> ELSE <<v[1]>>) \o fully_escape_query(Tail(v))

\* lines 196-203: the clauses the author input gives
AuthorClauses(fields) ==
    IF "author" \notin DOMAIN fields THEN <<>>
    ELSE LET v == Strip(fields["author"].items[1], " ")
             m == AuthorKeySearch(v)
         IN  IF m # None
             THEN << <<"author_key", ":", "(">> \o m \o <<")">> >>
             ELSE << <<"(", "author_name", ":", "(">> \o fully_escape_query(v)
                     \o <<")", " OR ", "author_alternative_name", ":", "(">>
                     \o fully_escape_query(v) \o <<")", ")">> >>

\* lines 219-223 for one key: one clause per value
FieldClauses(k, pv) ==
    [i \in 1..Len(pv.items) |-> <<k, ":", "(">> \o fully_escape_query(pv.items[i]) \o <<")">>]

\* lines 219-223: order is the order the set check_params & set(params) iterates in
PassThroughClauses(fields, order) ==
    Flatten([i \in 1..Len(order) |-> FieldClauses(order[i], fields[order[i]])])

\* lines 225-228
IsbnClauses(fields) ==
    IF "isbn" \in DOMAIN fields /\ Truthy(fields["isbn"])
    THEN LET raw == fields["isbn"].items[1]
             isbn == normalize_isbn(raw)
         IN  << <<"isbn", ":", "(">> \o (IF Falsy(isbn) THEN raw ELSE isbn) \o <<")">> >>
    ELSE <<>>

\* str methods and the str utilities raise on a list: params['author'].strip()
\* (line 197) and normalize_isbn(params['isbn']) (line 227)
BuildRaises(fields) ==
    \/ "author" \in DOMAIN fields /\ fields["author"].list
    \/ "isbn" \in DOMAIN fields /\ Truthy(fields["isbn"]) /\ fields["isbn"].list

build_q_from_params(fields, order) ==
    IF BuildRaises(fields)
    THEN [raised |-> TRUE, value |-> <<>>]
    ELSE [raised |-> FALSE,
          value |-> Join(AuthorClauses(fields) \o PassThroughClauses(fields, order)
                         \o IsbnClauses(fields), <<" AND ">>)]

Absent == [list |-> FALSE, items |-> << <<"<absent>">> >>]
Austen == <<" ", "A", "u", "s", "t", "e", "n">>
AuthorKey == <<"/", "O", "L", "1", "2", "A">>
AuthorInputs == {Absent, StrValue(Austen), StrValue(AuthorKey), ListValue(<<Austen>>)}
TitleInputs == {Absent, StrValue(Emma), ListValue(<<Emma, Harry>>), ListValue(<<>>)}
SubjectInputs == {Absent, StrValue(<<"a", ":", "b">>)}
IsbnInputs == {Absent, StrValue(<<>>), StrValue(Isbn13Hyphen), StrValue(Harry), ListValue(<<Isbn13>>)}
ModeInputs == {Absent, StrValue(<<"e", "b", "o", "o", "k", "s">>)}

\* the dict with the keys that are given
ParamsDict(a, t, s, i, m) ==
    LET full == [author |-> a, title |-> t, subject |-> s, isbn |-> i, mode |-> m]
    IN  [k \in {x \in DOMAIN full : full[x] # Absent} |-> full[k]]

(***************************************************************************)
(* q_to_solr_params: the edition field mapper.                             *)
(***************************************************************************)
NoField == "<None>"
ValueError == "<ValueError>"

\* faulty variant: a name the catalog does not know is dropped like a work-only field
convert_work_field_to_edition_field_Silent(field) ==
    IF field \in DOMAIN WORK_FIELD_TO_ED_FIELD THEN WORK_FIELD_TO_ED_FIELD[field]
    ELSE IF StartsWithId(field) THEN field
    ELSE NoField

convert_work_field_to_edition_field(field) ==
    IF field \in DOMAIN WORK_FIELD_TO_ED_FIELD THEN WORK_FIELD_TO_ED_FIELD[field]
    ELSE IF StartsWithId(field) THEN field
    ELSE IF field \in all_fields \/ field \in facet_fields THEN NoField
    ELSE ValueError

\* luqum_traverse: the paths of the nodes, parents before children
RECURSIVE Preorder(_, _)
Preorder(node, path) ==
    <<path>> \o Flatten([i \in 1..Len(node.kids) |-> Preorder(node.kids[i], Append(path, i))])

RECURSIVE NodeAt(_, _)
NodeAt(tree, path) == IF Len(path) = 0 THEN tree ELSE NodeAt(tree.kids[path[1]], Tail(path))

RECURSIVE SetAt(_, _, _)
SetAt(tree, path, node) ==
    IF Len(path) = 0 THEN node
    ELSE [tree EXCEPT !.kids[path[1]] = SetAt(tree.kids[path[1]], Tail(path), node)]

Front(path) == SubSeq(path, 1, Len(path) - 1)
EmptyTreeError == Node("EmptyTreeError", "", <<>>, <<>>)

\* luqum_remove_child: the node leaves its parent; a parent left without
\* children leaves its own parent; the root cannot leave (EmptyTreeError)
RECURSIVE luqum_remove_child(_, _)
luqum_remove_child(tree, path) ==
    IF Len(path) = 0 THEN EmptyTreeError
    ELSE LET t1 == SetAt(tree, path, [NodeAt(tree, path) EXCEPT !.kind = "Removed"])
             parent == NodeAt(t1, Front(path))
         IN  IF \A i \in 1..Len(parent.kids) : parent.kids[i].kind = "Removed"
             THEN luqum_remove_child(t1, Front(path))
             ELSE t1

\* the tree without the nodes that left it
RECURSIVE Compact(_)
Compact(node) ==
    LET kept == SelectSeq(node.kids, LAMBDA k : k.kind # "Removed")
    IN  [node EXCEPT !.kids = [i \in 1..Len(kept) |-> Compact(kept[i])]]

\* lines 320-336 at the node of one path; st = [tree, status, visited]
MapperStep(st, path) ==
    LET node == NodeAt(st.tree, path)
        new_name == convert_work_field_to_edition_field(node.name)
        negated == Len(path) > 0 /\ NodeAt(st.tree, Front(path)).kind \in {"Not", "Prohibit"}
    IN  IF st.status # "run" \/ node.kind # "SearchField" \/ node.name = "*" THEN st
        ELSE IF new_name = ValueError
        THEN [st EXCEPT !.status = "ValueError", !.visited = Append(@, node.name)]
        ELSE IF new_name # NoField
        THEN [st EXCEPT !.visited = Append(@, node.name),
                        !.tree = SetAt(st.tree, path,
                                       [node EXCEPT !.name = new_name,
                                                    !.value = IF negated THEN <<>> ELSE <<"+">>])]
        ELSE LET t1 == luqum_remove_child(st.tree, path) IN
             IF t1 = EmptyTreeError
             THEN [st EXCEPT !.status = "empty", !.visited = Append(@, node.name)]
             ELSE [st EXCEPT !.tree = t1, !.visited = Append(@, node.name)]

RECURSIVE MapperLoop(_, _)
MapperLoop(st, paths) ==
    IF Len(paths) = 0 THEN st ELSE MapperLoop(MapperStep(st, paths[1]), Tail(paths))

\* the loop of lines 319-336 over luqum_parser(work_query)
MapperRun(q_tree) ==
    MapperLoop([tree |-> q_tree, status |-> "run", visited |-> <<>>], Preorder(q_tree, <<>>))

\* [raised, value]: the str returned, '' when the whole tree was deleted
convert_work_query_to_edition_query(q_tree) ==
    LET st == MapperRun(q_tree) IN
    CASE st.status = "ValueError" -> [raised |-> TRUE, value |-> <<>>]
      [] st.status = "empty" -> [raised |-> FALSE, value |-> <<>>]
      [] OTHER -> [raised |-> FALSE, value |-> Str(Compact(st.tree))]

(***************************************************************************)
(* q_to_solr_params: the composer.  A parameter is <<key, value>>.         *)
(***************************************************************************)
Sentinel == "editions:[subquery]"

full_work_query ==
    <<"({!edismax q.op=\"AND\" qf=\"text alternative_title^20 author_name^20\" bf=\"min(100,edition_count)\" v=$workQuery})">>

ParentFilter == "_query_:\"{!parent which=type:work v=$edQuery filters=$editions.fq}\""
Editionless == "OR edition_count:0"

\* convert_iso_to_marc(web.ctx.lang or 'en') or 'eng'; lang is <<>> when unset
convert_iso_to_marc(lang) ==
    CASE lang = "en" -> "eng"
      [] lang = "fr" -> "fre"
      [] lang = "de" -> "ger"
      [] OTHER -> ""
user_lang(lang) ==
    LET marc == convert_iso_to_marc(IF lang = "" THEN "en" ELSE lang)
    IN  IF marc = "" THEN "eng" ELSE marc

\* ed_q.replace('"', '\\"')
RECURSIVE EscapeQuotes(_)
EscapeQuotes(v) ==
    IF Len(v) = 0 THEN <<>>
    ELSE (IF v[1] = Quote THEN <<"\\", Quote>> ELSE <<v[1]>>) \o EscapeQuotes(Tail(v))

\* lines 356-375
full_ed_query(edq, lang) ==
    <<"({!edismax bq=\"", "language:", user_lang(lang), "^40",
      " ebook_access:public^10 ebook_access:borrowable^8 ebook_access:printdisabled^2 cover_i:*^2",
      "\" v=\"">>
    \o (IF EscapeQuotes(edq) = <<>> THEN <<"*:*">> ELSE EscapeQuotes(edq))
    \o <<"\" qf=\"text title^4\"})">>

\* has_solr_editions_enabled() and 'editions:[subquery]' in solr_fields
EditionMode(a) == a.enabled /\ Sentinel \in a.solr_fields

\* lines 342-349: [raised, fq]
CollectEditionsFq(ps) ==
    LET facets == SelectSeq(ps, LAMBDA p : p[1] = "fq" /\ ~StartsWith(p[2], "type"))
        ed_field(p) == convert_work_field_to_edition_field(SplitOnce(p[2], ":")[1][1])
        kept == SelectSeq(facets, LAMBDA p : ed_field(p) # NoField)
    IN  IF \E i \in 1..Len(facets) : ed_field(facets[i]) = ValueError
        THEN [raised |-> TRUE, fq |-> <<>>]
        ELSE [raised |-> FALSE,
              fq |-> << <<"type:edition">> >>
                     \o [i \in 1..Len(kept) |-> <<ed_field(kept[i]), ":">> \o SplitOnce(kept[i][2], ":")[2]]]

\* lines 350-351
EmitEditionsFq(ps, fqs) == ps \o [i \in 1..Len(fqs) |-> <<"editions.fq", fqs[i]>>]

\* f.split('.', 1)[1] on the names of the model
AfterDot(f) ==
    CASE f = "editions.key" -> "key"
      [] f = "editions.title" -> "title"
      [] OTHER -> f
StartsWithEditions(f) == f \in {"editions.key", "editions.title"}

\* lines 396-400
edition_fields(solr_fields) ==
    LET dotted == {AfterDot(f) : f \in {g \in solr_fields : StartsWithEditions(g)}}
    IN  IF dotted = {} THEN solr_fields \ {Sentinel} ELSE dotted

\* faulty variant: the join without the allowance for works that have no edition
JoinedQ_JoinOnly ==
    <<"+">> \o full_work_query \o <<" ", "+(", ParentFilter, ")">>

\* lines 384-394
JoinedQ ==
    <<"+">> \o full_work_query \o <<" ", "+(", ParentFilter, " ", Editionless, ")">>

\* faulty variant: the joined q emitted before edQuery
EmitQuery_QFirst(ps, edq, fqs, lang, order) ==
    IF (edq # None /\ edq # <<>>) \/ Len(fqs) > 1
    THEN ps
         \o << <<"q", JoinedQ>>,
               <<"edQuery", IF edq # None /\ edq # <<>> THEN full_ed_query(edq, lang) ELSE <<"*:*">>>>,
               <<"editions.q", <<"({!terms f=_root_ v=$row.key}) AND ">> \o full_ed_query(edq, lang)>>,
               <<"editions.rows", <<"1">>>>,
               <<"editions.fl", Join([i \in 1..Len(order) |-> <<order[i]>>], <<",">>)>> >>
    ELSE Append(ps, <<"q", full_work_query>>)

\* faulty variant: the base filter alone counts as an edition constraint (line 377 with > 0)
EmitQuery_AnyFilter(ps, edq, fqs, lang, order) ==
    IF (edq # None /\ edq # <<>>) \/ Len(fqs) > 0
    THEN ps
         \o << <<"edQuery", IF edq # None /\ edq # <<>> THEN full_ed_query(edq, lang) ELSE <<"*:*">>>>,
               <<"q", JoinedQ>>,
               <<"editions.q", <<"({!terms f=_root_ v=$row.key}) AND ">> \o full_ed_query(edq, lang)>>,
               <<"editions.rows", <<"1">>>>,
               <<"editions.fl", Join([i \in 1..Len(order) |-> <<order[i]>>], <<",">>)>> >>
    ELSE Append(ps, <<"q", full_work_query>>)

\* lines 377-414; order is the order ','.join iterates edition_fields in
EmitQuery(ps, edq, fqs, lang, order) ==
    IF (edq # None /\ edq # <<>>) \/ Len(fqs) > 1
    THEN ps
         \o << <<"edQuery", IF edq # None /\ edq # <<>> THEN full_ed_query(edq, lang) ELSE <<"*:*">>>>,
               <<"q", JoinedQ>>,
               <<"editions.q", <<"({!terms f=_root_ v=$row.key}) AND ">> \o full_ed_query(edq, lang)>>,
               <<"editions.rows", <<"1">>>>,
               <<"editions.fl", Join([i \in 1..Len(order) |-> <<order[i]>>], <<",">>)>> >>
    ELSE Append(ps, <<"q", full_work_query>>)

(***************************************************************************)
(* The queries and projections q_to_solr_params is called with.            *)
(***************************************************************************)
EdNames ==
    {"title", "alternative_title", "edition_key", "subject", "subject_facet",
     "first_publish_year", "id_librivox", "ia_collection_s", "bogus", "*"}

EdField(n) == SearchField(n, Word(IF n = "*" THEN Star ELSE Emma))

QueryTrees ==
    {Word(Harry), Phrase(<<Quote>> \o Emma \o <<Quote>>)}
    \cup {EdField(n) : n \in EdNames}
    \cup {UnknownOperation(<<EdField(n), SearchField(m, Word(Harry))>>) : n, m \in EdNames}
    \cup {UnknownOperation(<<Word(Harry), EdField(n)>>) : n \in EdNames}
    \cup {Not(EdField(n)) : n \in EdNames}
    \cup {Prohibit(EdField(n)) : n \in EdNames}
    \cup {Group(UnknownOperation(<<EdField(n), Prohibit(SearchField(m, Word(Harry)))>>)) :
            n \in {"subject", "title"}, m \in EdNames}
    \cup {SearchField(n, Group(SearchField(m, Word(Harry)))) :
            n \in {"subject", "subject_facet"}, m \in EdNames}

SolrFieldSets ==
    {{"key", "title"}, {Sentinel}, {Sentinel, "key"}, {Sentinel, "key", "title"},
     {Sentinel, "editions.key", "title"}, {Sentinel, "editions.key", "editions.title"}}

Langs == {"", "fr", "xx"}

(***************************************************************************)
(* The state machine.  op is the function last called, arg what it was     *)
(* called with, ret what it returned or left behind.  pc, params, ed_q and *)
(* editions_fq are the position and the locals of q_to_solr_params.        *)
(***************************************************************************)
Normalizers == {"lcc_transform", "ddc_transform", "isbn_transform", "ia_collection_s_transform"}

Apply(fn, sf) ==
    CASE fn = "lcc_transform" -> lcc_transform(sf)
      [] fn = "ddc_transform" -> ddc_transform(sf)
      [] fn = "isbn_transform" -> isbn_transform(sf)
      [] fn = "ia_collection_s_transform" -> ia_collection_s_transform(sf)

Init ==
    /\ op = "init"
    /\ arg = <<>>
    /\ ret = <<>>
    /\ prev = <<>>
    /\ applied = 0
    /\ pc = "idle"
    /\ params = <<>>
    /\ ed_q = None
    /\ editions_fq = <<>>

\* nothing has been called yet: every request works on a tree and a
\* parameter list of its own, so a behaviour is one call
Free == op = "init"

NoComposer ==
    /\ pc' = "idle"
    /\ params' = <<>>
    /\ ed_q' = None
    /\ editions_fq' = <<>>

CallTransformUserQuery ==
    /\ Free
    /\ \E t \in UserTrees :
        /\ arg' = [user_query |-> Str(t), q_tree |-> t]
        /\ ret' = transform_user_query(Str(t), t)
    /\ op' = "transform_user_query"
    /\ prev' = <<>>
    /\ applied' = 0
    /\ NoComposer

CallBuildQFromParams ==
    /\ Free
    /\ \E a \in AuthorInputs, t \in TitleInputs, s \in SubjectInputs,
          i \in IsbnInputs, m \in ModeInputs :
        LET fields == ParamsDict(a, t, s, i, m) IN
        \E order \in Perms(check_params \cap DOMAIN fields) :
            /\ arg' = [params |-> fields, order |-> order]
            /\ ret' = build_q_from_params(fields, order)
    /\ op' = "build_q_from_params"
    /\ prev' = <<>>
    /\ applied' = 0
    /\ NoComposer

CallNormalizer(fn, name) ==
    /\ Free
    /\ \E v \in ValueNodes :
        /\ arg' = SearchField(name, v)
        /\ prev' = SearchField(name, v)
        /\ ret' = Apply(fn, SearchField(name, v))
    /\ op' = fn
    /\ applied' = 1
    /\ NoComposer

CallLccTransform == CallNormalizer("lcc_transform", "lcc")
CallDdcTransform == CallNormalizer("ddc_transform", "ddc")
CallIsbnTransform == CallNormalizer("isbn_transform", "isbn")
CallIaCollectionSTransform == CallNormalizer("ia_collection_s_transform", "ia_collection_s")

\* the same normalizer once more on the node it left
Reapply ==
    /\ op \in Normalizers
    /\ applied < MaxApply
    /\ ret # Raised
    /\ prev' = ret
    /\ ret' = Apply(op, ret)
    /\ applied' = applied + 1
    /\ UNCHANGED <<op, arg, pc, params, ed_q, editions_fq>>

\* faulty variant: the parameter list already holds a facet filter when the
\* edition filters are collected
Parse_WithFacet ==
    /\ Free
    /\ \E t \in QueryTrees, fl \in SolrFieldSets, en \in BOOLEAN, lang \in Langs :
        /\ arg' = [q_tree |-> t, solr_fields |-> fl, enabled |-> en, lang |-> lang]
        /\ params' = << <<"workQuery", Str(t)>>, <<"fq", <<"language", ":", "f", "r", "e">>>> >>
    /\ op' = "q_to_solr_params"
    /\ ret' = <<>>
    /\ prev' = <<>>
    /\ applied' = 0
    /\ pc' = "parsed"
    /\ ed_q' = None
    /\ editions_fq' = <<>>

\* lines 233-239
Parse ==
    /\ Free
    /\ \E t \in QueryTrees, fl \in SolrFieldSets, en \in BOOLEAN, lang \in Langs :
        /\ arg' = [q_tree |-> t, solr_fields |-> fl, enabled |-> en, lang |-> lang]
        /\ params' = << <<"workQuery", Str(t)>> >>
    /\ op' = "q_to_solr_params"
    /\ ret' = <<>>
    /\ prev' = <<>>
    /\ applied' = 0
    /\ pc' = "parsed"
    /\ ed_q' = None
    /\ editions_fq' = <<>>

\* lines 342-351
EditionFilters ==
    /\ pc = "parsed"
    /\ EditionMode(arg)
    /\ LET got == CollectEditionsFq(params) IN
        IF got.raised
        THEN /\ pc' = "raised"
             /\ ret' = Raised
             /\ UNCHANGED <<params, editions_fq>>
        ELSE /\ pc' = "filtered"
             /\ editions_fq' = got.fq
             /\ params' = EmitEditionsFq(params, got.fq)
             /\ UNCHANGED ret
    /\ UNCHANGED <<op, arg, prev, applied, ed_q>>

\* lines 353-375
EditionQuery ==
    /\ pc = "filtered"
    /\ LET got == convert_work_query_to_edition_query(arg.q_tree) IN
        IF got.raised
        THEN /\ pc' = "raised"
             /\ ret' = Raised
             /\ UNCHANGED ed_q
        ELSE /\ pc' = "mapped"
             /\ ed_q' = got.value
             /\ UNCHANGED ret
    /\ UNCHANGED <<op, arg, prev, applied, params, editions_fq>>

\* lines 377-416
Emit ==
    /\ \/ pc = "parsed" /\ ~EditionMode(arg)
       \/ pc = "mapped"
    /\ \E order \in Perms(edition_fields(arg.solr_fields)) :
        params' = EmitQuery(params, ed_q, editions_fq, arg.lang, order)
    /\ ret' = params'
    /\ pc' = "done"
    /\ UNCHANGED <<op, arg, prev, applied, ed_q, editions_fq>>

Next ==
    \/ CallTransformUserQuery
    \/ CallBuildQFromParams
    \/ CallIaCollectionSTransform
    \/ CallIsbnTransform
    \/ CallDdcTransform
    \/ CallLccTransform
    \/ Reapply
    \/ Parse
    \/ EditionFilters
    \/ EditionQuery
    \/ Emit

Spec == Init /\ [][Next]_vars

(***************************************************************************)
(* Properties.                                                             *)
(***************************************************************************)
Returned == op = "q_to_solr_params" /\ pc = "done"
KeysOf(ps) == [i \in 1..Len(ps) |-> ps[i][1]]
ValuesOf(ps, key) == {ps[i][2] : i \in {j \in 1..Len(ps) : ps[j][1] = key}}
IsPrefix(a, b) == Len(a) <= Len(b) /\ SubSeq(b, 1, Len(a)) = a
FieldPaths(tree) ==
    {Preorder(tree, <<>>)[i] : i \in {j \in 1..Len(Preorder(tree, <<>>)) :
        NodeAt(tree, Preorder(tree, <<>>)[j]).kind = "SearchField"}}

\* the pieces i..j of v are one mandatory group '+( ... )' holding both c and d
GroupHolds(v, i, j, c, d) ==
    /\ v[i] = "+(" /\ v[j] = ")"
    /\ \A k \in (i + 1)..(j - 1) : v[k] \notin {"+(", "(", ")"}
    /\ \E k \in (i + 1)..(j - 1) : v[k] = c
    /\ \E k \in (i + 1)..(j - 1) : v[k] = d

\* C1: whenever a 'q' of the returned parameter list holds the parent
\* block-join filter, the same mandatory group of that 'q' also holds
\* 'OR edition_count:0'.
C1_EditionlessPreserved ==
    Returned =>
        \A v \in ValuesOf(ret, "q") :
            Contains(v, ParentFilter) =>
                \E i, j \in 1..Len(v) : i < j /\ GroupHolds(v, i, j, ParentFilter, Editionless)

C1_Witness ==
    Returned /\ \E v \in ValuesOf(ret, "q") : Contains(v, ParentFilter)

\* the names the claim of C2 calls unknown: in neither the queryable set (all_fields
\* and the id_ names) nor the rename table
OutsideQueryable(name) ==
    /\ name \notin all_fields
    /\ ~StartsWithId(name)
    /\ name \notin DOMAIN WORK_FIELD_TO_ED_FIELD

\* the names the code rejects
Rejected(name) == OutsideQueryable(name) /\ name \notin facet_fields /\ name # "*"

MapperDone == op = "q_to_solr_params" /\ pc \in {"mapped", "done"} /\ EditionMode(arg)
MapperFinished == op = "q_to_solr_params" /\ pc \in {"mapped", "done", "raised"} /\ EditionMode(arg)
VisitedNames(tree) ==
    {MapperRun(tree).visited[i] : i \in 1..Len(MapperRun(tree).visited)}

\* C2 as stated: a work query with a field-scoped node (other than the match-all
\* '*') whose name is in neither the queryable set nor the rename table never
\* gets through the mapper.
C2_Original ==
    MapperDone =>
        \A p \in FieldPaths(arg.q_tree) :
            NodeAt(arg.q_tree, p).name # "*" => ~OutsideQueryable(NodeAt(arg.q_tree, p).name)

\* C2 amended: when the mapper's traversal reaches a field-scoped node whose name
\* is not '*', is not in the rename table, has no id_ prefix and is in neither
\* all_fields nor facet_fields, the call raises and returns no parameter list.
C2_UnknownFieldRejected ==
    MapperFinished =>
        /\ (\E n \in VisitedNames(arg.q_tree) : Rejected(n)) => pc = "raised"
        /\ pc = "raised" => ret = Raised /\ ValuesOf(params, "q") = {}

C2_Witness ==
    /\ MapperFinished /\ pc = "raised"
    /\ "bogus" \in VisitedNames(arg.q_tree)

\* C3: applying a normalizer to the node it produced leaves the node unchanged.
C3_Idempotent ==
    op \in Normalizers /\ applied >= 2 => ret = prev

\* C4: every alias a query uses (in any case) resolves to a member of all_fields.
C4_AliasTotal ==
    op = "transform_user_query" /\ ret.obj = "q_tree" =>
        \A p \in FieldPaths(arg.q_tree) :
            Lower(NodeAt(arg.q_tree, p).name) \in DOMAIN field_name_map =>
                NodeAt(ret.tree, p).name \in all_fields


\* the tree with every field-scoped subtree blanked: what no rewrite may touch
RECURSIVE OutsideFields(_)
OutsideFields(node) ==
    IF node.kind = "SearchField" THEN Node("SearchField", "", <<>>, <<>>)
    ELSE [node EXCEPT !.kids = [i \in 1..Len(node.kids) |-> OutsideFields(node.kids[i])]]

NoFieldAnywhere(tree) == FieldPaths(tree) = {}
IsIsbnLength(isbn) == isbn # None /\ (Len(isbn) = 10 \/ Len(isbn) = 13)

\* C5: transform_user_query returns a new tree isbn:(<normalized isbn>) exactly
\* when the input tree has no field-scoped node and the raw query normalizes to
\* an ISBN of length 10 or 13; otherwise it returns the input tree object,
\* changed only inside its field-scoped subtrees.
C5_BareIsbnFallback ==
    op = "transform_user_query" =>
        LET isbn == normalize_isbn(arg.user_query) IN
        /\ ret.obj = "luqum_parser" <=> (NoFieldAnywhere(arg.q_tree) /\ IsIsbnLength(isbn))
        /\ ret.obj = "luqum_parser" =>
              Str(ret.tree) = <<"isbn", ":", "(">> \o isbn \o <<")">>
        /\ ret.obj # "luqum_parser" =>
              /\ ret.obj = "q_tree"
              /\ OutsideFields(ret.tree) = OutsideFields(arg.q_tree)

C5_Witness ==
    /\ op = "transform_user_query"
    /\ ret.obj = "luqum_parser"
    /\ arg.user_query = Isbn13Hyphen

Recognized == check_params \cup {"author", "isbn"}

\* C6: build_q_from_params returns a str for every dict of str and list-of-str
\* values, and the empty str when no recognized input is given.
C6_BuildNeverFails ==
    op = "build_q_from_params" =>
        /\ ~ret.raised
        /\ (DOMAIN arg.params \cap Recognized = {}) => ret.value = <<>>

EditionKeys == {"workQuery", "edQuery", "q", "editions.q", "editions.rows", "editions.fl"}
ConstraintsApply == Returned /\ (~Falsy(ed_q) \/ Len(editions_fq) > 1)

C7_FinalOrder ==
    ConstraintsApply =>
        /\ SelectSeq(KeysOf(ret), LAMBDA k : k \in EditionKeys)
              = <<"workQuery", "edQuery", "q", "editions.q", "editions.rows", "editions.fl">>
        /\ ret[1][1] = "workQuery"
        /\ ValuesOf(ret, "editions.rows") = {<<"1">>}

\* C7: q_to_solr_params only appends to its parameter list, and when edition
\* constraints apply the returned keys are, in this order and once each,
\* workQuery, edQuery, q, editions.q, editions.rows, editions.fl, with
\* workQuery first and editions.rows = '1'.
C7_OrderedAppendOnly ==
    /\ [][IsPrefix(params, params')]_vars
    /\ [](C7_FinalOrder /\ (Returned => ret = params))

C7_Witness ==
    ConstraintsApply /\ ValuesOf(ret, "editions.fq") # {} /\ Len(ret) > 6

Fallback == Returned /\ EditionMode(arg) /\ Falsy(ed_q) /\ Len(editions_fq) <= 1
SingleQueryForm == << <<"workQuery", Str(arg.q_tree)>>, <<"q", full_work_query>> >>

\* C8 as stated: with edition mode on, an empty edition fragment and only the base
\* filter, the returned list is the list of the single-query form.
C8_Original ==
    Fallback => ret = SingleQueryForm

\* C8 amended: in that case the returned list is the single-query form with one
\* parameter ('editions.fq', 'type:edition') between workQuery and q, and no
\* edQuery, editions.q, editions.rows or editions.fl.
C8_FallbackForm ==
    Fallback =>
        /\ ret = <<SingleQueryForm[1], <<"editions.fq", <<"type:edition">>>>, SingleQueryForm[2]>>
        /\ \A k \in {"edQuery", "editions.q", "editions.rows", "editions.fl"} : ValuesOf(ret, k) = {}

C8_Witness ==
    Fallback /\ arg.q_tree = SearchField("subject", Word(Emma))

SpecialNormalizer(name) ==
    CASE name = "isbn" -> "isbn_transform"
      [] name \in {"lcc", "lcc_sort"} -> "lcc_transform"
      [] name \in {"ddc", "ddc_sort"} -> "ddc_transform"
      [] name = "ia_collection_s" -> "ia_collection_s_transform"
      [] OTHER -> "none"

\* what the claim of C9 expects below a special field: the normalizer's node, and
\* for a DDC Word ending in '*' the normalized prefix and the wildcard
ExpectedChild(fn, node) ==
    IF fn = "ddc_transform" /\ ddc_transform_result(node) # None
    THEN Word(ddc_transform_result(node))
    ELSE Apply(fn, node).kids[1]

\* C9: below every field-scoped node whose resolved name is isbn, lcc, lcc_sort,
\* ddc, ddc_sort or ia_collection_s the tree holds the result of the field's normalizer.
C9_SpecialDispatch ==
    op = "transform_user_query" /\ ret.obj = "q_tree" =>
        \A p \in FieldPaths(arg.q_tree) :
            LET node == NodeAt(arg.q_tree, p)
                fn == SpecialNormalizer(ResolveAlias(node.name))
            IN  fn # "none" /\ NoFieldAnywhere(node.kids[1]) =>
                    NodeAt(ret.tree, p).kids[1] = ExpectedChild(fn, node)

\* the utility's value for one bound
NormedBound(fn, v) ==
    IF v = Star THEN v
    ELSE IF fn = "lcc_transform" THEN short_lcc_to_sortable_lcc(v) ELSE normalize_ddc(v)

\* C10: lcc_transform and ddc_transform on a Range never raise; a bound the
\* utility gives no value for keeps the str it had, the other bound holds its
\* normalized form.
C10_RangeBounds ==
    op \in {"lcc_transform", "ddc_transform"} /\ applied = 1 /\ arg.kids[1].kind = "Range" =>
        /\ ret # Raised
        /\ \A i \in 1..2 :
            LET before == arg.kids[1].kids[i].value
                after == ret.kids[1].kids[i].value
            IN  IF NormedBound(op, before) = None
                THEN after = before
                ELSE after = NormedBound(op, before)

\* q_to_solr_params is past the collection of lines 342-351 with edition mode on
Collected ==
    op = "q_to_solr_params" /\ EditionMode(arg) /\ pc \in {"filtered", "mapped", "done", "raised"}

\* the five parameters of the parent-join form are in the list, q being the joined q
JoinFormEmitted(ps) ==
    /\ \A k \in {"edQuery", "editions.q", "editions.rows", "editions.fl"} : ValuesOf(ps, k) # {}
    /\ ValuesOf(ps, "q") = {JoinedQ}

\* C11: with edition mode on, the collected edition filter list is exactly
\* ['type:edition'] and exactly one parameter ('editions.fq', 'type:edition') is
\* in the list; the parent-join form is returned if and only if edition mode is
\* on and the mapped edition fragment is non-empty; no edQuery is the bare '*:*'.
C11_BaseFilterOnly ==
    /\ Collected =>
          /\ editions_fq = << <<"type:edition">> >>
          /\ SelectSeq(params, LAMBDA p : p[1] = "editions.fq")
                = << <<"editions.fq", <<"type:edition">>>> >>
    /\ op = "q_to_solr_params" /\ ~EditionMode(arg) =>
          editions_fq = <<>> /\ ValuesOf(params, "editions.fq") = {}
    /\ Returned =>
          /\ JoinFormEmitted(ret) <=> (EditionMode(arg) /\ ~Falsy(ed_q))
          /\ ~JoinFormEmitted(ret) => ValuesOf(ret, "q") = {full_work_query}
          /\ <<"*:*">> \notin ValuesOf(ret, "edQuery")

C11_Witness ==
    /\ Returned /\ Collected
    /\ ~Falsy(ed_q)
    /\ JoinFormEmitted(ret)
    /\ Len(SelectSeq(ret, LAMBDA p : p[1] = "editions.fq")) = 1

====
